---- MODULE Spec2Model ----
(***************************************************************************)
(* A model of cloud-run-pptx/main.py: the /process-pptx job pipeline, the  *)
(* question generator generate_quiz_from_chunk, the text extractor and     *)
(* chunker, and the two presentation-to-PDF handlers.                      *)
(*                                                                         *)
(* Three specifications share the module:                                  *)
(*   Spec         one /process-pptx request, step by step                  *)
(*   SpecGen      generate_quiz_from_chunk applied to one API reply        *)
(*   SpecConvert  one /convert-pdf or /convert-to-pdf-direct request       *)
(***************************************************************************)
EXTENDS Integers, Sequences, FiniteSets, TLC

VARIABLES
    \* ---- /process-pptx (process_pptx) ----
    pc,             \* position of the handler
    req,            \* the request body: jobId, storagePath, userId, questionCount
    job,            \* the quizJobs/<jobId> status record
    deck,           \* the presentation the caller uploaded
    blob,           \* TRUE while the source document is in the object store
    tmp,            \* the scratch copy: <<>> (no file) or <<deck>>
    slides_data,    \* result of extract_text_from_pptx
    chunks,         \* result of chunk_slides
    i,              \* loop index over chunks (0-based, as enumerate gives it)
    all_questions,  \* the accumulator
    quiz,           \* the quizzes collection: <<>> or <<document>>
    exc,            \* the exception in flight: <<>> or <<message>>
    response,       \* the HTTP response: <<>> or <<record>>
    genCalls,       \* history: chunk indices sent to the generator, in order
    genResults,     \* history: what each generator call returned
    apiCalls,       \* history: number of generate_content invocations
    raisedAt,       \* history: <<>> or <<[at, message]>>, the statement that raised
    truncated,      \* history: line 473 has run
    deleteFailed,   \* history: blob.delete() raised
    \* ---- generate_quiz_from_chunk alone ----
    g_pc, g_reply, g_out,
    \* ---- /convert-pdf and /convert-to-pdf-direct ----
    c_pc, c_n, c_route, c_req, c_fs, c_resp, c_exc, c_cleanup

pipeVars == <<pc, req, job, deck, blob, tmp, slides_data, chunks, i, all_questions,
              quiz, exc, response, genCalls, genResults, apiCalls, raisedAt,
              truncated, deleteFailed>>
genVars == <<g_pc, g_reply, g_out>>
convVars == <<c_pc, c_n, c_route, c_req, c_fs, c_resp, c_exc, c_cleanup>>
vars == <<pipeVars, genVars, convVars>>

(***************************************************************************)
(* Bounds of the model.                                                    *)
(***************************************************************************)
MaxSlides == 7          \* slides in a deck (7 slides make 3 chunks)
MaxReplyLen == 2        \* entries in one API reply
MaxChoices == 6         \* choices in one candidate entry
MaxQuestionCount == 3   \* largest questionCount requested
NegQuestionCount == 1   \* questionCount ranges down to -NegQuestionCount

(***************************************************************************)
(* Python helpers.                                                         *)
(***************************************************************************)
Min(a, b) == IF a <= b THEN a ELSE b
Max(a, b) == IF a >= b THEN a ELSE b

\* s[:n] with Python's meaning of a negative n
Take(s, n) ==
    IF n >= 0 THEN SubSeq(s, 1, Min(n, Len(s)))
    ELSE SubSeq(s, 1, Max(0, Len(s) + n))

RECURSIVE Concat(_)
Concat(ss) == IF ss = <<>> THEN <<>> ELSE Head(ss) \o Concat(Tail(ss))

(***************************************************************************)
(* generate_quiz_from_chunk: the API reply and its validation.             *)
(*                                                                         *)
(* A reply is: the call raising ("api_error"), text with no JSON in it     *)
(* ("no_json"), text whose JSON does not parse ("bad_json"), or a parsed   *)
(* list of entries found in a fenced block ("fenced") or as a bare         *)
(* bracketed list ("bracket").  An entry is a dict ("dict"), a string      *)
(* ("str") or another scalar such as a number or null ("scalar").  For a   *)
(* dict: the keys it has, its choices list, and its answer_index, which is *)
(* an integer (ai_type "int") or a string (ai_type "str").                 *)
(***************************************************************************)
RequiredKeys == {"question", "choices", "answer_index", "explanation"}

ChoicesOf(n) == [j \in 1..n |-> j]

DictEntry(keys, qid, n, aiType, ai) ==
    [kind |-> "dict", keys |-> keys, question |-> qid, choices |-> ChoicesOf(n),
     ai_type |-> aiType, answer_index |-> ai]

NonDictEntry(kind) ==
    [kind |-> kind, keys |-> {}, question |-> 0, choices |-> <<>>,
     ai_type |-> "int", answer_index |-> 0]

\* line 202: all(key in q for key in [...]) raises TypeError for a q that is
\* neither a container nor a string; for a string it is a substring test (False)
KeyTestRaises(q) == q.kind = "scalar"

HasRequiredKeys(q) == q.kind = "dict" /\ RequiredKeys \subseteq q.keys

\* line 203: len(q['choices']) >= 4 and 0 <= q['answer_index'] < len(q['choices']);
\* the comparison raises TypeError for a string answer_index, and is reached
\* only when the first conjunct holds
RangeTestRaises(q) == Len(q.choices) >= 4 /\ q.ai_type = "str"

RangeTest(q) ==
    Len(q.choices) >= 4 /\ 0 <= q.answer_index /\ q.answer_index < Len(q.choices)

\* lines 204-210: the record appended to validated_questions
Validated(q) ==
    [question |-> q.question,
     choices |-> Take(q.choices, 5),
     answer_index |-> q.answer_index,
     explanation |-> "explanation",
     topic |-> IF "topic" \in q.keys THEN "topic" ELSE ""]

\* lines 200-212: the validation loop; an exception raised by any entry leaves
\* the loop (raised), whatever was validated before it
RECURSIVE ValidateLoop(_, _)
ValidateLoop(entries, acc) ==
    IF entries = <<>> THEN [raised |-> FALSE, questions |-> acc]
    ELSE LET q == Head(entries) IN
         IF KeyTestRaises(q) THEN [raised |-> TRUE, questions |-> acc]
         ELSE IF ~HasRequiredKeys(q) THEN ValidateLoop(Tail(entries), acc)
         ELSE IF RangeTestRaises(q) THEN [raised |-> TRUE, questions |-> acc]
         ELSE IF RangeTest(q) THEN ValidateLoop(Tail(entries), Append(acc, Validated(q)))
         ELSE ValidateLoop(Tail(entries), acc)

\* variant: the generate_content call outside the try, its exception leaving
\* the function
generate_quiz_from_chunk_Propagates(reply) ==
    IF reply.kind = "api_error"
    THEN [raised |-> TRUE, questions |-> <<>>, calls |-> 1]
    ELSE IF reply.kind \in {"no_json", "bad_json"}
    THEN [raised |-> FALSE, questions |-> <<>>, calls |-> 1]
    ELSE LET v == ValidateLoop(reply.entries, <<>>) IN
         [raised |-> FALSE, questions |-> IF v.raised THEN <<>> ELSE v.questions,
          calls |-> 1]

\* lines 177-216: one generate_content call inside try/except Exception; the
\* result is what the function returns (raised: an exception leaves it)
generate_quiz_from_chunk(reply) ==
    IF reply.kind = "api_error"
    THEN [raised |-> FALSE, questions |-> <<>>, calls |-> 1]        \* line 214
    ELSE IF reply.kind = "no_json"
    THEN [raised |-> FALSE, questions |-> <<>>, calls |-> 1]        \* line 195
    ELSE IF reply.kind = "bad_json"
    THEN [raised |-> FALSE, questions |-> <<>>, calls |-> 1]        \* line 197, 214
    ELSE LET v == ValidateLoop(reply.entries, <<>>) IN
         [raised |-> FALSE,
          questions |-> IF v.raised THEN <<>> ELSE v.questions,     \* line 214
          calls |-> 1]

FailedReply(kind) == [kind |-> kind, entries |-> <<>>]
ListReply(kind, entries) == [kind |-> kind, entries |-> entries]

RECURSIVE SeqsUpTo(_, _)
SeqsUpTo(S, n) ==
    IF n = 0 THEN {<<>>}
    ELSE LET shorter == SeqsUpTo(S, n - 1) IN
         shorter \cup {Append(s, x) : s \in {t \in shorter : Len(t) = n - 1}, x \in S}

\* the entries the generator is tried on
GenEntries ==
    {NonDictEntry("scalar"), NonDictEntry("str")}
    \cup {DictEntry(RequiredKeys \ {k}, 1, 5, "int", 0) : k \in RequiredKeys}
    \cup {DictEntry(RequiredKeys \cup {"topic"}, 1, n, "int", a) :
            n \in 3..MaxChoices, a \in (0 - 1)..MaxChoices}
    \cup {DictEntry(RequiredKeys, 1, n, "str", 0) : n \in 3..MaxChoices}

\* every reply of at most n entries over the given entries
RepliesOver(entries, n) ==
    {FailedReply(k) : k \in {"api_error", "no_json", "bad_json"}}
    \cup {ListReply(k, es) : k \in {"fenced", "bracket"}, es \in SeqsUpTo(entries, n)}

(***************************************************************************)
(* extract_text_from_pptx and chunk_slides.                                *)
(*                                                                         *)
(* A deck is a sequence of slides; a slide has a title ("" when it has     *)
(* none) and its content parts in shape order.  Three texts stand for the  *)
(* kinds of part the extractor tells apart: "long" (50 characters or more),*)
(* "ftr" (a short text) and "3" (a short text matching the page-number     *)
(* pattern).                                                               *)
(***************************************************************************)
IsShort(text) == text \in {"ftr", "3"}         \* line 81: len(text) < 50
IsPageNum(text) == text = "3"                  \* line 101: page_num_pattern

TextSlide == [title |-> "T", parts |-> <<"long">>]
PageOnlySlide == [title |-> "", parts |-> <<"3">>]
FooterOnlySlide == [title |-> "", parts |-> <<"ftr">>]
BlankSlide == [title |-> "", parts |-> <<>>]
SlideKinds == {TextSlide, PageOnlySlide, FooterOnlySlide, BlankSlide}

\* decks of one kind of slide, and a few mixed ones
MixedDecks ==
    {<<BlankSlide, TextSlide>>,
     <<PageOnlySlide, BlankSlide>>,
     <<TextSlide, PageOnlySlide, FooterOnlySlide, TextSlide>>,
     <<[title |-> "T", parts |-> <<"ftr", "long", "3">>],
       [title |-> "", parts |-> <<"ftr", "ftr">>],
       BlankSlide,
       [title |-> "T", parts |-> <<>>]>>}

Decks == {[j \in 1..n |-> k] : n \in 0..MaxSlides, k \in SlideKinds} \cup MixedDecks

RECURSIVE CountIn(_, _)
CountIn(parts, text) ==
    IF parts = <<>> THEN 0
    ELSE (IF Head(parts) = text THEN 1 ELSE 0) + CountIn(Tail(parts), text)

\* lines 79-82: footer_candidates[text], counted over every slide's parts
RECURSIVE FooterCount(_, _)
FooterCount(prs, text) ==
    IF prs = <<>> \/ ~IsShort(text) THEN 0
    ELSE CountIn(Head(prs).parts, text) + FooterCount(Tail(prs), text)

\* lines 51-91: one record per slide that has a title or content
RECURSIVE CollectSlides(_, _)
CollectSlides(prs, n) ==
    IF n > Len(prs) THEN <<>>
    ELSE LET slide == prs[n] IN
         (IF slide.title # "" \/ slide.parts # <<>>
          THEN <<[slide_num |-> n, title |-> slide.title, content |-> slide.parts]>>
          ELSE <<>>) \o CollectSlides(prs, n + 1)

\* lines 94-98
FootersToRemove(prs, total_slides) ==
    {text \in {"long", "ftr", "3"} :
        /\ FooterCount(prs, text) > 0
        /\ 2 * FooterCount(prs, text) >= total_slides
        /\ FooterCount(prs, text) > 2}

KeepLine(prs, total_slides, line) ==
    line \notin FootersToRemove(prs, total_slides) /\ ~IsPageNum(line)

\* lines 103-109: every record kept, its content filtered
FilterRecords(prs, collected) ==
    [k \in 1..Len(collected) |->
        [collected[k] EXCEPT !.content =
            SelectSeq(@, LAMBDA line : KeepLine(prs, Len(collected), line))]]

\* lines 38-111
extract_text_from_pptx(prs) == FilterRecords(prs, CollectSlides(prs, 1))

\* lines 114-134: groups of chunk_size records; a chunk is the rendered block,
\* kept here as the records it renders (every record renders at least its
\* "[slide N]" marker, so a group's text is empty only for an empty group)
chunk_size == 3

RECURSIVE chunk_slides(_)
chunk_slides(records) ==
    IF records = <<>> THEN <<>>
    ELSE LET group == SubSeq(records, 1, Min(chunk_size, Len(records)))
             rest == SubSeq(records, Min(chunk_size, Len(records)) + 1, Len(records))
         IN (IF Len(group) > 0 THEN <<group>> ELSE <<>>) \o chunk_slides(rest)

(***************************************************************************)
(* /process-pptx: process_pptx, one request.                               *)
(***************************************************************************)
QuestionCounts == (0 - NegQuestionCount)..MaxQuestionCount

\* the job record before the run (written by the caller that queued the job)
InitialJob ==
    [status |-> "pending", progress |-> 0, message |-> "",
     error |-> <<>>, quizId |-> <<>>, questionCount |-> <<>>]

\* lines 219-228: update() sets the given fields and leaves the others
update_job_status(j, status, progress, kw) ==
    [f \in DOMAIN j |->
        IF f = "status" THEN status
        ELSE IF f = "progress" THEN progress
        ELSE IF f \in DOMAIN kw THEN kw[f]
        ELSE j[f]]

\* the replies the pipeline's generator calls may get; the question of the
\* k-th entry of the reply to chunk i is named <<i, k>>
GoodEntry == DictEntry(RequiredKeys \cup {"topic"}, 1, 5, "int", 0)
SixChoiceEntry == DictEntry(RequiredKeys, 1, 6, "int", 5)
ThreeChoiceEntry == DictEntry(RequiredKeys, 1, 3, "int", 0)
ScalarEntry == NonDictEntry("scalar")

PipeReplies ==
    {FailedReply("api_error"), FailedReply("no_json"), FailedReply("bad_json"),
     ListReply("fenced", <<>>),
     ListReply("fenced", <<GoodEntry>>),
     ListReply("fenced", <<GoodEntry, SixChoiceEntry>>),
     ListReply("fenced", <<ThreeChoiceEntry, GoodEntry>>),
     ListReply("fenced", <<GoodEntry, ScalarEntry>>),
     ListReply("bracket", <<GoodEntry, GoodEntry, GoodEntry>>)}

ReplyTo(reply, n) ==
    [reply EXCEPT !.entries =
        [k \in 1..Len(reply.entries) |-> [reply.entries[k] EXCEPT !.question = <<n, k>>]]]

\* variant of line 469 with > for >=
ReachedCount_Strict(questions, question_count) == Len(questions) > question_count

\* lines 469-470
ReachedCount(questions, question_count) == Len(questions) >= question_count

\* line 473
Truncated(questions, question_count) == Take(questions, question_count)

\* variant of line 475 with the emptiness test left out
NoQuestions_Never(questions) == FALSE

\* line 475
NoQuestions(questions) == questions = <<>>

\* variant of line 502 storing the requested count as totalQuestions
QuizDocument_CountsRequested(questions, slides, request) ==
    [id |-> "quiz1",
     type |-> "learning",
     questions |-> [k \in 1..Len(questions) |->
                      [id |-> k, type |-> "multiple",
                       text |-> questions[k].question,
                       choices |-> questions[k].choices,
                       answer |-> questions[k].answer_index,
                       explanation |-> questions[k].explanation,
                       topic |-> questions[k].topic]],
     isPublic |-> FALSE,
     totalQuestions |-> request.questionCount,
     sourceType |-> "pptx",
     slideCount |-> Len(slides)]

\* lines 484-508
QuizDocument(questions, slides, request) ==
    [id |-> "quiz1",
     type |-> "learning",
     questions |-> [k \in 1..Len(questions) |->
                      [id |-> k, type |-> "multiple",
                       text |-> questions[k].question,
                       choices |-> questions[k].choices,
                       answer |-> questions[k].answer_index,
                       explanation |-> questions[k].explanation,
                       topic |-> questions[k].topic]],
     isPublic |-> FALSE,
     totalQuestions |-> Len(questions),
     sourceType |-> "pptx",
     slideCount |-> Len(slides)]

ErrorResponse(code, message) ==
    [code |-> code, error |-> message, quizId |-> <<>>, questionCount |-> <<>>]

\* a statement of the handler raises: control goes to line 537, through the
\* finally of line 532 when the statement is inside the inner try
Raise(message, inTry) ==
    /\ exc' = <<message>>
    /\ raisedAt' = <<[at |-> pc, message |-> message]>>
    /\ pc' = "except"
    /\ tmp' = IF inTry THEN <<>> ELSE tmp

\* an update_job_status call that is followed by more of the pipeline
StatusWrite(at, progress, message, next, inTry) ==
    /\ pc = at
    /\ \/ /\ job' = update_job_status(job, "processing", progress, [message |-> message])
          /\ pc' = next
          /\ UNCHANGED <<exc, raisedAt, tmp>>
       \/ /\ Raise("status write failed", inTry)
          /\ UNCHANGED job

\* lines 410-422
ParseRequest ==
    /\ UNCHANGED <<genVars, convVars>>
    /\ pc = "start"
    /\ IF req.jobId /\ req.storagePath /\ req.userId
       THEN pc' = "status_download" /\ UNCHANGED response
       ELSE pc' = "done" /\ response' = <<ErrorResponse(400, "Missing required fields")>>
    /\ UNCHANGED <<req, deck, job, blob, tmp, slides_data, chunks, i, all_questions, quiz,
                   exc, genCalls, genResults, apiCalls, raisedAt, truncated, deleteFailed>>

\* line 425
StatusDownloading ==
    /\ UNCHANGED <<genVars, convVars>>
    /\ StatusWrite("status_download", 5, "downloading", "download", FALSE)
    /\ UNCHANGED <<req, deck, blob, slides_data, chunks, i, all_questions, quiz,
                   response, genCalls, genResults, apiCalls, truncated, deleteFailed>>

\* lines 428-434: the scratch file is created, then filled by the download
Download ==
    /\ UNCHANGED <<genVars, convVars>>
    /\ pc = "download"
    /\ \/ /\ blob
          /\ tmp' = <<deck>>
          /\ pc' = "status_extract"
          /\ UNCHANGED <<exc, raisedAt>>
       \/ /\ exc' = <<"download failed">>
          /\ raisedAt' = <<[at |-> pc, message |-> "download failed"]>>
          /\ pc' = "except"
          /\ tmp' = <<<<>>>>
    /\ UNCHANGED <<req, deck, job, blob, slides_data, chunks, i, all_questions, quiz,
                   response, genCalls, genResults, apiCalls, truncated, deleteFailed>>

\* line 438
StatusExtracting ==
    /\ UNCHANGED <<genVars, convVars>>
    /\ StatusWrite("status_extract", 15, "extracting", "extract", TRUE)
    /\ UNCHANGED <<req, deck, blob, slides_data, chunks, i, all_questions, quiz,
                   response, genCalls, genResults, apiCalls, truncated, deleteFailed>>

\* lines 441-443: Presentation(file_path) raises on an unreadable file
Extract ==
    /\ UNCHANGED <<genVars, convVars>>
    /\ pc = "extract"
    /\ \/ /\ slides_data' = extract_text_from_pptx(tmp[1])
          /\ pc' = IF slides_data' = <<>> THEN "fail_no_text" ELSE "chunk"
          /\ UNCHANGED <<exc, raisedAt, tmp>>
       \/ /\ Raise("unreadable presentation", TRUE)
          /\ UNCHANGED slides_data
    /\ UNCHANGED <<req, deck, job, blob, chunks, i, all_questions, quiz,
                   response, genCalls, genResults, apiCalls, truncated, deleteFailed>>

\* lines 444-445, and the finally of line 532
FailNoText ==
    /\ UNCHANGED <<genVars, convVars>>
    /\ pc = "fail_no_text"
    /\ \/ /\ job' = update_job_status(job, "failed", 0, [error |-> <<"no text found">>])
          /\ response' = <<ErrorResponse(400, "No text found in PPTX")>>
          /\ pc' = "done"
          /\ tmp' = <<>>
          /\ UNCHANGED <<exc, raisedAt>>
       \/ /\ Raise("status write failed", TRUE)
          /\ UNCHANGED <<job, response>>
    /\ UNCHANGED <<req, deck, blob, slides_data, chunks, i, all_questions, quiz,
                   genCalls, genResults, apiCalls, truncated, deleteFailed>>

\* line 448
Chunk ==
    /\ UNCHANGED <<genVars, convVars>>
    /\ pc = "chunk"
    /\ chunks' = chunk_slides(slides_data)
    /\ pc' = "status_chunked"
    /\ UNCHANGED <<req, deck, job, blob, tmp, slides_data, i, all_questions, quiz, exc,
                   response, genCalls, genResults, apiCalls, raisedAt, truncated, deleteFailed>>

\* lines 451-458: the status write, then the loop is entered (or skipped)
StatusChunked ==
    /\ UNCHANGED <<genVars, convVars>>
    /\ StatusWrite("status_chunked", 25, "chunked",
                   IF chunks = <<>> THEN "truncate" ELSE "status_chunk", TRUE)
    /\ i' = 0
    /\ all_questions' = <<>>
    /\ UNCHANGED <<req, deck, blob, slides_data, chunks, quiz,
                   response, genCalls, genResults, apiCalls, truncated, deleteFailed>>

\* lines 459-463
StatusChunk ==
    /\ UNCHANGED <<genVars, convVars>>
    /\ StatusWrite("status_chunk", 25 + ((i * 60) \div Len(chunks)), "generating",
                   "generate", TRUE)
    /\ UNCHANGED <<req, deck, blob, slides_data, chunks, i, all_questions, quiz,
                   response, genCalls, genResults, apiCalls, truncated, deleteFailed>>

\* lines 465-470: chunk i goes to the generator; its questions are appended;
\* the loop ends when the count is reached or the chunks are exhausted
Generate ==
    /\ UNCHANGED <<genVars, convVars>>
    /\ pc = "generate"
    /\ \E reply \in PipeReplies :
         LET r == generate_quiz_from_chunk(ReplyTo(reply, i)) IN
         /\ genCalls' = Append(genCalls, i)
         /\ apiCalls' = apiCalls + r.calls
         /\ IF r.raised
            THEN /\ Raise("generation failed", TRUE)
                 /\ UNCHANGED <<all_questions, i, genResults>>
            ELSE /\ genResults' = Append(genResults,
                                    [reply |-> reply.kind, questions |-> r.questions])
                 /\ all_questions' = all_questions \o r.questions
                 /\ IF ReachedCount(all_questions', req.questionCount)
                       \/ i + 1 >= Len(chunks)
                    THEN pc' = "truncate" /\ UNCHANGED i
                    ELSE pc' = "status_chunk" /\ i' = i + 1
                 /\ UNCHANGED <<exc, raisedAt, tmp>>
    /\ UNCHANGED <<req, deck, job, blob, slides_data, chunks, quiz,
                   response, truncated, deleteFailed>>

\* lines 473-475
Truncate ==
    /\ UNCHANGED <<genVars, convVars>>
    /\ pc = "truncate"
    /\ all_questions' = Truncated(all_questions, req.questionCount)
    /\ truncated' = TRUE
    /\ pc' = IF NoQuestions(all_questions') THEN "fail_no_questions" ELSE "status_saving"
    /\ UNCHANGED <<req, deck, job, blob, tmp, slides_data, chunks, i, quiz, exc,
                   response, genCalls, genResults, apiCalls, raisedAt, deleteFailed>>

\* lines 476-477, and the finally of line 532
FailNoQuestions ==
    /\ UNCHANGED <<genVars, convVars>>
    /\ pc = "fail_no_questions"
    /\ \/ /\ job' = update_job_status(job, "failed", 0, [error |-> <<"generation failed">>])
          /\ response' = <<ErrorResponse(500, "Failed to generate questions")>>
          /\ pc' = "done"
          /\ tmp' = <<>>
          /\ UNCHANGED <<exc, raisedAt>>
       \/ /\ Raise("status write failed", TRUE)
          /\ UNCHANGED <<job, response>>
    /\ UNCHANGED <<req, deck, blob, slides_data, chunks, i, all_questions, quiz,
                   genCalls, genResults, apiCalls, truncated, deleteFailed>>

\* line 480
StatusSaving ==
    /\ UNCHANGED <<genVars, convVars>>
    /\ StatusWrite("status_saving", 90, "saving", "save_quiz", TRUE)
    /\ UNCHANGED <<req, deck, blob, slides_data, chunks, i, all_questions, quiz,
                   response, genCalls, genResults, apiCalls, truncated, deleteFailed>>

\* lines 483-510
SaveQuiz ==
    /\ UNCHANGED <<genVars, convVars>>
    /\ pc = "save_quiz"
    /\ \/ /\ quiz' = <<QuizDocument(all_questions, slides_data, req)>>
          /\ pc' = "delete_source"
          /\ UNCHANGED <<exc, raisedAt, tmp>>
       \/ /\ Raise("quiz write failed", TRUE)
          /\ UNCHANGED quiz
    /\ UNCHANGED <<req, deck, job, blob, slides_data, chunks, i, all_questions,
                   response, genCalls, genResults, apiCalls, truncated, deleteFailed>>

\* lines 513-516: a failed delete is printed and nothing else
DeleteSource ==
    /\ UNCHANGED <<genVars, convVars>>
    /\ pc = "delete_source"
    /\ \/ blob' = FALSE /\ UNCHANGED deleteFailed
       \/ deleteFailed' = TRUE /\ UNCHANGED blob
    /\ pc' = "complete"
    /\ UNCHANGED <<req, deck, job, tmp, slides_data, chunks, i, all_questions, quiz, exc,
                   response, genCalls, genResults, apiCalls, raisedAt, truncated>>

\* lines 519-530, and the finally of line 532
Complete ==
    /\ UNCHANGED <<genVars, convVars>>
    /\ pc = "complete"
    /\ \/ /\ job' = update_job_status(job, "completed", 100,
                        [message |-> "done", quizId |-> <<quiz[1].id>>,
                         questionCount |-> <<Len(all_questions)>>])
          /\ response' = <<[code |-> 200, error |-> "", quizId |-> <<quiz[1].id>>,
                            questionCount |-> <<Len(all_questions)>>]>>
          /\ pc' = "done"
          /\ tmp' = <<>>
          /\ UNCHANGED <<exc, raisedAt>>
       \/ /\ Raise("status write failed", TRUE)
          /\ UNCHANGED <<job, response>>
    /\ UNCHANGED <<req, deck, blob, slides_data, chunks, i, all_questions, quiz,
                   genCalls, genResults, apiCalls, truncated, deleteFailed>>

\* variant of lines 537-541 without the status write of line 540
HandleException_NoStatusWrite ==
    /\ UNCHANGED <<genVars, convVars>>
    /\ pc = "except"
    /\ response' = <<ErrorResponse(500, exc[1])>>
    /\ exc' = <<>>
    /\ pc' = "done"
    /\ UNCHANGED <<req, deck, job, blob, tmp, slides_data, chunks, i, all_questions, quiz,
                   genCalls, genResults, apiCalls, raisedAt, truncated, deleteFailed>>

\* lines 537-541: the job is marked failed with str(e); when that write
\* raises too, the exception leaves the view and the framework answers 500
HandleException ==
    /\ UNCHANGED <<genVars, convVars>>
    /\ pc = "except"
    /\ \/ /\ job' = IF req.jobId
                    THEN update_job_status(job, "failed", 0, [error |-> exc])
                    ELSE job
          /\ response' = <<ErrorResponse(500, exc[1])>>
          /\ exc' = <<>>
       \/ /\ req.jobId
          /\ exc' = <<"status write failed">>
          /\ response' = <<ErrorResponse(500, "Internal Server Error")>>
          /\ UNCHANGED job
    /\ pc' = "done"
    /\ UNCHANGED <<req, deck, blob, tmp, slides_data, chunks, i, all_questions, quiz,
                   genCalls, genResults, apiCalls, raisedAt, truncated, deleteFailed>>

PipeInit ==
    /\ pc = "start"
    /\ req \in [jobId : BOOLEAN, storagePath : BOOLEAN, userId : BOOLEAN,
                questionCount : QuestionCounts]
    /\ job = InitialJob
    /\ deck \in Decks
    /\ blob = TRUE
    /\ tmp = <<>>
    /\ slides_data = <<>>
    /\ chunks = <<>>
    /\ i = 0
    /\ all_questions = <<>>
    /\ quiz = <<>>
    /\ exc = <<>>
    /\ response = <<>>
    /\ genCalls = <<>>
    /\ genResults = <<>>
    /\ apiCalls = 0
    /\ raisedAt = <<>>
    /\ truncated = FALSE
    /\ deleteFailed = FALSE

PipeIdle ==
    /\ pc = "idle"
    /\ req = [jobId |-> FALSE, storagePath |-> FALSE, userId |-> FALSE, questionCount |-> 0]
    /\ job = InitialJob
    /\ deck = <<>>
    /\ blob = FALSE
    /\ tmp = <<>>
    /\ slides_data = <<>>
    /\ chunks = <<>>
    /\ i = 0
    /\ all_questions = <<>>
    /\ quiz = <<>>
    /\ exc = <<>>
    /\ response = <<>>
    /\ genCalls = <<>>
    /\ genResults = <<>>
    /\ apiCalls = 0
    /\ raisedAt = <<>>
    /\ truncated = FALSE
    /\ deleteFailed = FALSE

GenIdle == g_pc = "idle" /\ g_reply = FailedReply("no_json") /\ g_out = <<>>

ConvIdle ==
    /\ c_pc = "idle"
    /\ c_n = 0
    /\ c_route = "none"
    /\ c_req = [token |-> FALSE, payload |-> FALSE]
    /\ c_fs = {}
    /\ c_resp = 0
    /\ c_exc = ""
    /\ c_cleanup = FALSE

Init == PipeInit /\ GenIdle /\ ConvIdle

Next ==
    \/ ParseRequest
    \/ StatusDownloading
    \/ Download
    \/ StatusExtracting
    \/ Extract
    \/ FailNoText
    \/ Chunk
    \/ StatusChunked
    \/ StatusChunk
    \/ Generate
    \/ Truncate
    \/ FailNoQuestions
    \/ StatusSaving
    \/ SaveQuiz
    \/ DeleteSource
    \/ Complete
    \/ HandleException

Spec == Init /\ [][Next]_vars

(***************************************************************************)
(* generate_quiz_from_chunk on its own: one reply, one call.               *)
(***************************************************************************)
GenInit ==
    /\ g_pc = "called"
    /\ g_reply \in RepliesOver(GenEntries, MaxReplyLen)
    /\ g_out = <<>>

\* lines 177-216
GenReturn ==
    /\ g_pc = "called"
    /\ g_out' = <<generate_quiz_from_chunk(g_reply)>>
    /\ g_pc' = "returned"
    /\ UNCHANGED <<g_reply, pipeVars, convVars>>

InitGen == PipeIdle /\ GenInit /\ ConvIdle

NextGen ==
    \/ GenReturn

SpecGen == InitGen /\ [][NextGen]_vars

(***************************************************************************)
(* /convert-pdf (convert_pdf) and /convert-to-pdf-direct                   *)
(* (convert_to_pdf_direct): one request.  c_fs is the set of scratch paths *)
(* that exist: "pptx" (the NamedTemporaryFile), "outdir" (the mkdtemp      *)
(* directory) and "pdf" (the converter's output inside outdir), each named *)
(* with the number c_n of the request that made it, as every request gets  *)
(* fresh temporary names.  c_resp is the status code of the response, 0    *)
(* while there is none; c_pc = "done" once the response has been sent and  *)
(* closed.  The service then takes the next request, the disk as it is.    *)
(***************************************************************************)
MaxRequests == 2        \* requests served one after the other

Path(name) == <<c_n, name>>

ConvInit ==
    /\ c_pc = "start"
    /\ c_n = 1
    /\ c_route \in {"convert-pdf", "convert-to-pdf-direct"}
    /\ c_req \in [token : BOOLEAN, payload : BOOLEAN]
    /\ c_fs = {}
    /\ c_resp = 0
    /\ c_exc = ""
    /\ c_cleanup = FALSE

\* lines 313-315 and 379-381: the finally of the inner try
Finally(fs) == fs \ {Path("pptx")}

\* lines 317-330 and 383-390: the except clauses of the outer try
StatusOf(e) ==
    IF e = "TimeoutExpired" THEN 504
    ELSE 500

\* lines 277-283 and 356-362: what the converter run can do
RunOutcome(route, next) ==
    \/ /\ c_fs' = c_fs \cup {Path("pdf")}
       /\ c_pc' = next
       /\ UNCHANGED <<c_resp, c_exc>>
    \/ /\ c_pc' = next
       /\ UNCHANGED <<c_fs, c_resp, c_exc>>
    \/ \E e \in {"TimeoutExpired", "CalledProcessError"}, partial \in SUBSET {Path("pdf")} :
         /\ c_exc' = e
         /\ c_fs' = Finally(c_fs \cup partial)
         /\ c_resp' = StatusOf(e)
         /\ c_pc' = "respond"

\* lines 259-262
CP_Authenticate ==
    /\ c_route = "convert-pdf" /\ c_pc = "start"
    /\ IF c_req.token
       THEN c_pc' = "receive" /\ UNCHANGED c_resp
       ELSE c_pc' = "respond" /\ c_resp' = 401
    /\ UNCHANGED <<c_n, c_route, c_req, c_fs, c_exc, c_cleanup, pipeVars, genVars>>

\* lines 266-272
CP_Receive ==
    /\ c_route = "convert-pdf" /\ c_pc = "receive"
    /\ IF c_req.payload
       THEN c_pc' = "mkdtemp" /\ c_fs' = c_fs \cup {Path("pptx")} /\ UNCHANGED c_resp
       ELSE c_pc' = "respond" /\ c_resp' = 400 /\ UNCHANGED c_fs
    /\ UNCHANGED <<c_n, c_route, c_req, c_exc, c_cleanup, pipeVars, genVars>>

\* line 276
CP_MakeOutputDir ==
    /\ c_route = "convert-pdf" /\ c_pc = "mkdtemp"
    /\ c_fs' = c_fs \cup {Path("outdir")}
    /\ c_pc' = "run"
    /\ UNCHANGED <<c_n, c_route, c_req, c_resp, c_exc, c_cleanup, pipeVars, genVars>>

\* lines 277-283
CP_Run ==
    /\ c_route = "convert-pdf" /\ c_pc = "run"
    /\ RunOutcome(c_route, "check")
    /\ UNCHANGED <<c_n, c_route, c_req, c_cleanup, pipeVars, genVars>>

\* lines 285-311: the output is looked for; send_file opens it (and may
\* raise); cleanup is registered on the response; then the finally
CP_Send ==
    /\ c_route = "convert-pdf" /\ c_pc = "check"
    /\ \/ /\ Path("pdf") \notin c_fs
          /\ c_resp' = 500
          /\ UNCHANGED <<c_exc, c_cleanup>>
       \/ /\ Path("pdf") \in c_fs
          /\ c_resp' = 200
          /\ c_cleanup' = TRUE
          /\ UNCHANGED c_exc
       \/ /\ Path("pdf") \in c_fs
          /\ c_exc' = "OSError"
          /\ c_resp' = StatusOf("OSError")
          /\ UNCHANGED c_cleanup
    /\ c_fs' = Finally(c_fs)
    /\ c_pc' = "respond"
    /\ UNCHANGED <<c_n, c_route, c_req, pipeVars, genVars>>

\* lines 301-309: the response is sent and closed; the registered cleanup
\* removes the PDF, then the directory, and swallows what either raises
CP_Close ==
    /\ c_route = "convert-pdf" /\ c_pc = "respond"
    /\ IF c_cleanup
       THEN \/ c_fs' = c_fs \ {Path("pdf"), Path("outdir")}
            \/ c_fs' = c_fs \ {Path("pdf")}
            \/ c_fs' = c_fs
       ELSE UNCHANGED c_fs
    /\ c_pc' = "done"
    /\ UNCHANGED <<c_n, c_route, c_req, c_resp, c_exc, c_cleanup, pipeVars, genVars>>

\* lines 342-345
CD_Parse ==
    /\ c_route = "convert-to-pdf-direct" /\ c_pc = "start"
    /\ IF c_req.payload
       THEN c_pc' = "decode" /\ UNCHANGED c_resp
       ELSE c_pc' = "respond" /\ c_resp' = 400
    /\ UNCHANGED <<c_n, c_route, c_req, c_fs, c_exc, c_cleanup, pipeVars, genVars>>

\* lines 348-352: b64decode raises on a malformed payload
CD_Decode ==
    /\ c_route = "convert-to-pdf-direct" /\ c_pc = "decode"
    /\ \/ /\ c_fs' = c_fs \cup {Path("pptx")}
          /\ c_pc' = "mkdtemp"
          /\ UNCHANGED <<c_resp, c_exc>>
       \/ /\ c_exc' = "binascii.Error"
          /\ c_resp' = StatusOf("binascii.Error")
          /\ c_pc' = "respond"
          /\ UNCHANGED c_fs
    /\ UNCHANGED <<c_n, c_route, c_req, c_cleanup, pipeVars, genVars>>

\* line 355
CD_MakeOutputDir ==
    /\ c_route = "convert-to-pdf-direct" /\ c_pc = "mkdtemp"
    /\ c_fs' = c_fs \cup {Path("outdir")}
    /\ c_pc' = "run"
    /\ UNCHANGED <<c_n, c_route, c_req, c_resp, c_exc, c_cleanup, pipeVars, genVars>>

\* lines 356-362
CD_Run ==
    /\ c_route = "convert-to-pdf-direct" /\ c_pc = "run"
    /\ RunOutcome(c_route, "check")
    /\ UNCHANGED <<c_n, c_route, c_req, c_cleanup, pipeVars, genVars>>

\* lines 364-381: the output is looked for, read (open may raise), removed
\* with its directory, and returned; then the finally
CD_Return ==
    /\ c_route = "convert-to-pdf-direct" /\ c_pc = "check"
    /\ \/ /\ Path("pdf") \notin c_fs
          /\ c_resp' = 500
          /\ c_fs' = Finally(c_fs)
          /\ UNCHANGED c_exc
       \/ /\ Path("pdf") \in c_fs
          /\ c_resp' = 200
          /\ c_fs' = Finally(c_fs \ {Path("pdf"), Path("outdir")})
          /\ UNCHANGED c_exc
       \/ /\ Path("pdf") \in c_fs
          /\ c_exc' = "OSError"
          /\ c_resp' = StatusOf("OSError")
          /\ c_fs' = Finally(c_fs)
    /\ c_pc' = "respond"
    /\ UNCHANGED <<c_n, c_route, c_req, c_cleanup, pipeVars, genVars>>

\* the response is sent and closed; this handler registers no cleanup
CD_Close ==
    /\ c_route = "convert-to-pdf-direct" /\ c_pc = "respond"
    /\ c_pc' = "done"
    /\ UNCHANGED <<c_n, c_route, c_req, c_fs, c_resp, c_exc, c_cleanup, pipeVars, genVars>>

\* the next request arrives
NextRequest ==
    /\ c_pc = "done"
    /\ c_n < MaxRequests
    /\ c_n' = c_n + 1
    /\ c_pc' = "start"
    /\ c_route' \in {"convert-pdf", "convert-to-pdf-direct"}
    /\ c_req' \in [token : BOOLEAN, payload : BOOLEAN]
    /\ c_resp' = 0
    /\ c_exc' = ""
    /\ c_cleanup' = FALSE
    /\ UNCHANGED <<c_fs, pipeVars, genVars>>

InitConvert == PipeIdle /\ GenIdle /\ ConvInit

NextConvert ==
    \/ CP_Authenticate
    \/ CP_Receive
    \/ CP_MakeOutputDir
    \/ CP_Run
    \/ CP_Send
    \/ CP_Close
    \/ CD_Parse
    \/ CD_Decode
    \/ CD_MakeOutputDir
    \/ CD_Run
    \/ CD_Return
    \/ CD_Close
    \/ NextRequest

SpecConvert == InitConvert /\ [][NextConvert]_vars

(***************************************************************************)
(* The claims.                                                             *)
(***************************************************************************)
RequestComplete == req.jobId /\ req.storagePath /\ req.userId

\* C1: a persisted QuizDocument holds at most questionCount questions, and its
\* totalQuestions is at most questionCount, for every integer questionCount.
C1_QuizWithinRequestedCount ==
    quiz # <<>> =>
        /\ Len(quiz[1].questions) <= req.questionCount
        /\ quiz[1].totalQuestions <= req.questionCount

\* C2: the generator is called on chunks 0, 1, 2, ... in order, a prefix of the
\* chunk sequence; chunk k is sent (k > 0) only if the results of chunks
\* 0..k-1 together hold fewer than questionCount questions; and the accumulator
\* is the in-order concatenation of the per-chunk results (cut to questionCount
\* by line 473).
QuestionsOf(results) == Concat([k \in 1..Len(results) |-> results[k].questions])

C2_ChunksInOrderUntilCountReached ==
    /\ Len(genCalls) <= Len(chunks)
    /\ genCalls = [k \in 1..Len(genCalls) |-> k - 1]
    /\ \A k \in 2..Len(genCalls) :
         Len(QuestionsOf(SubSeq(genResults, 1, k - 1))) < req.questionCount
    /\ (pc \in {"status_chunk", "generate"} /\ i > 0) =>
         Len(all_questions) < req.questionCount
    /\ pc \in {"status_chunk", "generate", "truncate"} =>
         all_questions = QuestionsOf(genResults)
    /\ truncated => all_questions = Take(QuestionsOf(genResults), req.questionCount)

\* C2 witness: the count was reached after two of three chunks; the third was
\* never sent
C2_StoppedEarly ==
    /\ pc = "truncate"
    /\ Len(chunks) = 3
    /\ genCalls = <<0, 1>>
    /\ genResults[1].questions # <<>>
    /\ genResults[2].questions # <<>>
    /\ Len(all_questions) >= req.questionCount

\* C3: every record generate_quiz_from_chunk returns has 4 or 5 choices and an
\* answer_index within the returned choices list.
C3_ReturnedRecordsInRange ==
    g_pc = "returned" =>
        \A k \in 1..Len(g_out[1].questions) :
            LET q == g_out[1].questions[k] IN
            /\ Len(q.choices) >= 4
            /\ Len(q.choices) <= 5
            /\ 0 <= q.answer_index
            /\ q.answer_index < Len(q.choices)

\* C4: once the response of a conversion request has completed, none of the
\* scratch paths that request created exists.
C4_NoScratchLeft ==
    c_pc = "done" => \A f \in c_fs : f[1] # c_n

\* C5 as stated: when a statement of steps 3-10 raises, the run ends with the
\* job failed with the exception's message, and a 500 response.
PipelineSteps ==
    {"download", "extract", "fail_no_text", "chunk", "generate", "truncate",
     "fail_no_questions", "save_quiz", "delete_source"}

C5_FailedWithMessage ==
    (pc = "done" /\ raisedAt # <<>> /\ raisedAt[1].at \in PipelineSteps) =>
        /\ job.status = "failed"
        /\ job.error = <<raisedAt[1].message>>
        /\ response[1].code = 500

\* C5 as amended: an exception that leaves a statement of the run ends the
\* pipeline (only the handler of line 537 runs after it, and it changes the
\* job record and the response alone); the response is a 500; and the job is
\* failed with the exception's message when the handler's own status write
\* succeeds; when that write raises too the job record is left as it was,
\* neither failed nor completed.
C5_AtEnd ==
    /\ raisedAt # <<>> => pc \in {"except", "done"}
    /\ (pc = "except") => (exc = <<raisedAt[1].message>> /\ response = <<>>)
    /\ (pc = "done" /\ raisedAt # <<>>) =>
         /\ response[1].code = 500
         /\ exc = <<>> =>
              /\ job.status = "failed"
              /\ job.progress = 0
              /\ job.error = <<raisedAt[1].message>>
              /\ response[1].error = raisedAt[1].message
         /\ exc # <<>> => job.status \in {"pending", "processing"}

C5_HandlerStep ==
    pc = "except" =>
        /\ pc' = "done"
        /\ UNCHANGED <<req, deck, blob, tmp, slides_data, chunks, i, all_questions,
                       quiz, genCalls, genResults, apiCalls, raisedAt, truncated,
                       deleteFailed>>

C5_ExceptionEndsRun == []C5_AtEnd /\ [][C5_HandlerStep]_vars

\* C5 witness: the quiz write raised and the job was marked failed with it
C5_QuizWriteRaised ==
    /\ pc = "done"
    /\ raisedAt # <<>>
    /\ raisedAt[1].at = "save_quiz"
    /\ job.status = "failed"
    /\ job.error = <<"quiz write failed">>

\* C6: for a parsed reply, the result is the in-order subsequence of the
\* entries that satisfy the QuestionRecord rules (each with its choices cut
\* to 5); an invalid entry drops out alone.
SatisfiesRules(q) ==
    /\ q.kind = "dict"
    /\ RequiredKeys \subseteq q.keys
    /\ Len(q.choices) >= 4
    /\ q.ai_type = "int"
    /\ 0 <= q.answer_index
    /\ q.answer_index < Len(q.choices)

ValidSubsequence(entries) ==
    LET kept == SelectSeq(entries, SatisfiesRules) IN
    [k \in 1..Len(kept) |-> Validated(kept[k])]

C6_InvalidEntriesDropAlone ==
    (g_pc = "returned" /\ g_reply.kind \in {"fenced", "bracket"}) =>
        g_out[1].questions = ValidSubsequence(g_reply.entries)

\* C7: a presentation none of whose slides has a title or a content line that
\* survives boilerplate removal ends with the job failed, a 400 response and no
\* QuizDocument (stated for the runs in which no call raised and at least one
\* question was asked for).
NoExtractableText(prs) ==
    \A n \in 1..Len(prs) :
        /\ prs[n].title = ""
        /\ \A k \in 1..Len(prs[n].parts) :
             ~KeepLine(prs, Len(CollectSlides(prs, 1)), prs[n].parts[k])

C7_NoTextRejected ==
    (/\ pc = "done"
     /\ RequestComplete
     /\ req.questionCount >= 1
     /\ raisedAt = <<>>
     /\ NoExtractableText(deck)) =>
        /\ job.status = "failed"
        /\ response[1].code = 400
        /\ quiz = <<>>

\* C8 as stated: an empty accumulator after truncation ends with the job
\* failed, a 500 response and no QuizDocument; a QuizDocument is written only
\* for a non-empty truncated accumulator.
C8_EmptyMarksFailed ==
    /\ (truncated /\ all_questions = <<>>) =>
         /\ quiz = <<>>
         /\ pc = "done" => (job.status = "failed" /\ response[1].code = 500)
    /\ quiz # <<>> => (truncated /\ all_questions # <<>>)

\* C8 as amended: an empty accumulator after truncation ends with no
\* QuizDocument and a 500 response; the job is failed when the status write of
\* line 476 succeeds or, that one raising, the handler's write of line 540
\* succeeds; when both raise the job record stays processing.  A QuizDocument
\* is written only for a non-empty truncated accumulator.
C8_EmptyEndsWithoutQuiz ==
    /\ (truncated /\ all_questions = <<>>) =>
         /\ quiz = <<>>
         /\ pc \in {"fail_no_questions", "except", "done"}
         /\ pc = "done" =>
              /\ response[1].code = 500
              /\ raisedAt = <<>> =>
                   (job.status = "failed" /\ job.error = <<"generation failed">>)
              /\ (raisedAt # <<>> /\ exc = <<>>) =>
                   (job.status = "failed" /\ job.error = <<"status write failed">>)
              /\ (raisedAt # <<>> /\ exc # <<>>) => job.status = "processing"
    /\ quiz # <<>> => (truncated /\ all_questions # <<>>)

\* C8 witness: generation produced nothing and the job was marked failed
C8_NothingGenerated ==
    /\ pc = "done"
    /\ truncated
    /\ all_questions = <<>>
    /\ genCalls # <<>>
    /\ raisedAt = <<>>
    /\ job.status = "failed"
    /\ response[1].code = 500

\* C9: one generate_content call per visited chunk; a failed call or a reply
\* with no parsable JSON gives that chunk no questions, raises nothing out of
\* generate_quiz_from_chunk and leaves the job record alone; the loop then goes
\* on to the next chunk unless the count is reached or no chunk is left.
FailedKinds == {"api_error", "no_json", "bad_json"}

C9_State ==
    /\ apiCalls = Len(genCalls)
    /\ Len(genResults) = Len(genCalls)
    /\ raisedAt # <<>> => raisedAt[1].at # "generate"
    /\ \A k \in 1..Len(genResults) :
         genResults[k].reply \in FailedKinds => genResults[k].questions = <<>>

C9_GenerateStep ==
    pc = "generate" =>
        /\ job' = job
        /\ exc' = <<>>
        /\ genCalls' = Append(genCalls, i)
        /\ genResults'[Len(genResults')].reply \in FailedKinds =>
             /\ all_questions' = all_questions
             /\ IF Len(all_questions) < req.questionCount /\ i + 1 < Len(chunks)
                THEN pc' = "status_chunk" /\ i' = i + 1
                ELSE pc' = "truncate"

C9_FailedChunkIsSkipped == []C9_State /\ [][C9_GenerateStep]_vars

\* C9 witness: the first chunk's call failed and the job completed from the
\* second chunk
C9_CompletedAfterFailedChunk ==
    /\ job.status = "completed"
    /\ Len(genResults) >= 2
    /\ genResults[1].reply = "api_error"
    /\ genResults[2].questions # <<>>

\* C10: completed is written only once the QuizDocument is stored, with
\* progress 100, the document's id and a questionCount equal to the number of
\* questions stored, to its totalQuestions and to the response's questionCount;
\* a failed delete of the source leaves the quiz stored and the run goes on to
\* the completed write.
C10_State ==
    /\ job.status = "completed" =>
         /\ quiz # <<>>
         /\ job.progress = 100
         /\ job.quizId = <<quiz[1].id>>
         /\ job.questionCount = <<Len(quiz[1].questions)>>
         /\ quiz[1].totalQuestions = Len(quiz[1].questions)
         /\ response # <<>> =>
              /\ response[1].code = 200
              /\ response[1].quizId = job.quizId
              /\ response[1].questionCount = job.questionCount
    /\ quiz # <<>> => quiz[1].totalQuestions = Len(quiz[1].questions)
    /\ deleteFailed => (quiz # <<>> /\ blob)

C10_DeleteStep ==
    pc = "delete_source" => (pc' = "complete" /\ quiz' = quiz /\ job' = job)

C10_CompletedAfterQuizStored == []C10_State /\ [][C10_DeleteStep]_vars

\* C10 witness: the delete failed and the job is completed
C10_CompletedDespiteFailedDelete ==
    /\ deleteFailed
    /\ job.status = "completed"
    /\ pc = "done"
    /\ Len(quiz[1].questions) < req.questionCount


\* C11: in every state of a run, a job whose status record is failed has no
\* QuizDocument stored by that run (stated for the runs that ask for at least
\* one question).
C11_FailedJobHasNoQuiz ==
    (req.questionCount >= 1 /\ job.status = "failed") => quiz = <<>>

====
